---- MODULE Spec2Model ----
(***************************************************************************)
(* Model of the aah build tool's Go source analyser (aah/ast.go) and of    *)
(* the part of buildApp (aah/build.go) that drives it.                     *)
(*                                                                         *)
(* Strings that the code slices, searches or compares with paths are       *)
(* sequences of one-character strings; package identifiers, type names and *)
(* import aliases are plain strings.                                       *)
(***************************************************************************)
EXTENDS Integers, Sequences, FiniteSets, TLC

VARIABLES
    fs,                \* the file system and toolchain the run sees (input)
    pc,                \* position of the caller: start, loaded, fatal, panic, done
    prg,               \* *program returned by loadProgram, or Nil
    errs,              \* []error returned by loadProgram
    visited,           \* history: the walk callback invocations, in order
    buildImportCache,  \* the process-wide import path -> package name cache
    handed,            \* history: import mapping handed to each file's processTypes
    lookups,           \* history: build.Import calls and cache hits of processImports
    lastErr,           \* result of the last Process call
    calls,             \* number of Process calls made so far
    found,             \* result of the embedding query, or Nil
    fieldType,         \* the field type expression handed to findPkgAndTypeName
    classified         \* what findPkgAndTypeName returned, and for which expression

vars == <<fs, pc, prg, errs, visited, buildImportCache, handed, lookups,
          lastErr, calls, found, fieldType, classified>>

\* nil values, one per type
NoErr == [kind |-> "none", path |-> <<>>, names |-> <<>>]
NoInfo == [valid |-> FALSE, IsDir |-> FALSE]
NilPrg == [isNil |-> TRUE, Path |-> <<>>, Packages |-> <<>>]

----------------------------------------------------------------------------
(* Bounds *)

MaxDirs == 4       \* directories in the analysed tree, root included
MaxCalls == 2      \* Process calls the caller makes in one run
MaxStars == 3      \* pointer wrappers around a field type

----------------------------------------------------------------------------
(* strings, path/filepath *)

S_src == <<"s", "r", "c">>
S_a == <<"a">>
S_dot == <<".">>
S_slash == <<"/">>

HasAt(s, sub, i) ==
    /\ i + Len(sub) - 1 <= Len(s)
    /\ \A k \in 1..Len(sub) : s[i + k - 1] = sub[k]

\* strings.Index: 0-based index of the first occurrence of sub in s, or -1
Index(s, sub) ==
    IF \E i \in 1..Len(s) : HasAt(s, sub, i)
    THEN (CHOOSE i \in 1..Len(s) :
              HasAt(s, sub, i) /\ \A j \in 1..(i - 1) : ~HasAt(s, sub, j)) - 1
    ELSE -1

\* s[from:] with a 0-based from in 0..len(s)
SliceFrom(s, from) == SubSeq(s, from + 1, Len(s))

RECURSIVE SqueezeSlashes(_)
SqueezeSlashes(s) ==
    IF Len(s) < 2 THEN s
    ELSE IF s[1] = "/" /\ s[2] = "/" THEN SqueezeSlashes(Tail(s))
    ELSE <<s[1]>> \o SqueezeSlashes(Tail(s))

RECURSIVE TrimTrailingSlash(_)
TrimTrailingSlash(s) ==
    IF Len(s) > 1 /\ s[Len(s)] = "/"
    THEN TrimTrailingSlash(SubSeq(s, 1, Len(s) - 1))
    ELSE s

\* filepath.Clean on paths without "." and ".." elements: the empty path
\* becomes ".", repeated separators collapse, a trailing separator goes.
Clean(s) ==
    IF s = <<>> THEN S_dot
    ELSE TrimTrailingSlash(SqueezeSlashes(s))

RECURSIVE LastSlash(_)
LastSlash(s) ==
    IF s = <<>> THEN 0
    ELSE IF s[Len(s)] = "/" THEN Len(s)
    ELSE LastSlash(SubSeq(s, 1, Len(s) - 1))

\* filepath.Base
Base(s) ==
    IF s = <<>> THEN S_dot
    ELSE LET t == TrimTrailingSlash(s) IN
         IF t = S_slash THEN S_slash
         ELSE SubSeq(t, LastSlash(t) + 1, Len(t))

\* filepath.Join(dir, name) for a clean dir and a plain name
Join(dir, name) == Clean(dir \o S_slash \o name)

\* strings.ToLower on the identifiers of the analysed sources
ToLower(s) ==
    CASE s = "A" -> "a"
      [] s = "B" -> "b"
      [] s = "M" -> "m"
      [] s = "U" -> "u"
      [] s = "N" -> "n"
      [] s = "D" -> "d"
      [] s = "E" -> "e"
      [] s = "Z" -> "z"
      [] s = "Foo" -> "foo"
      [] s = "Bar" -> "bar"
      [] s = "Ca" -> "ca"
      [] s = "Cb" -> "cb"
      [] s = "Cs" -> "cs"
      [] s = "Cf" -> "cf"
      [] s = "Cx" -> "cx"
      [] OTHER -> s

\* the elements of set S as a sequence that follows the order of sequence ord
RECURSIVE InOrder(_, _)
InOrder(ord, S) ==
    IF ord = <<>> THEN <<>>
    ELSE IF Head(ord) \in S THEN <<Head(ord)>> \o InOrder(Tail(ord), S)
    ELSE InOrder(Tail(ord), S)

Range(f) == {f[i] : i \in DOMAIN f}

\* all orderings of a finite set, as sequences
Orderings(S) ==
    {o \in [1..Cardinality(S) -> S] : \A x \in S : \E i \in DOMAIN o : o[i] = x}

EmptyMap == [k \in {} |-> ""]

----------------------------------------------------------------------------
(* The analysed tree.  A directory is named by the sequence of directory   *)
(* names leading to it from the root; fs.dirs maps each directory to its   *)
(* files and to the way the walker fares on it (cond).                     *)

F_go == <<"f", ".", "g", "o">>
G_go == <<"g", ".", "g", "o">>
H_go == <<"h", ".", "g", "o">>
T_go == <<"t", ".", "g", "o">>

\* every entry name of the tree, in the lexical order filepath.Walk uses
EntryNames == <<S_a, F_go, G_go, H_go, S_src, T_go>>
DirNames == {S_a, S_src}

PkgIds == {"p", "q"}

RECURSIVE PathOf(_)
PathOf(d) ==
    IF d = <<>> THEN fs.root
    ELSE Join(PathOf(SubSeq(d, 1, Len(d) - 1)), d[Len(d)])

DirAt(srcPath) == CHOOSE d \in DOMAIN fs.dirs : PathOf(d) = srcPath

IsDirPath(srcPath) == \E d \in DOMAIN fs.dirs : PathOf(d) = srcPath

SubDirNames(d) == {n \in DirNames : Append(d, n) \in DOMAIN fs.dirs}

FileNames(d) == {f.name : f \in fs.dirs[d].files}

Entries(d) == InOrder(EntryNames, SubDirNames(d) \cup FileNames(d))

\* ess.Excludes.Match on a base name
Match(excludes, name) == name \in excludes

\* ess.IsDirEmpty: reading the directory yields no entry
IsDirEmpty(srcPath) ==
    LET d == DirAt(srcPath) IN
    \/ fs.dirs[d].cond = "readFail"
    \/ SubDirNames(d) = {} /\ FileNames(d) = {}

\* ess.IsStrEmpty
IsStrEmpty(s) == s = ""
IsPathEmpty(s) == Len(s) = 0

DirInfo == [valid |-> TRUE, IsDir |-> TRUE]
FileInfo == [valid |-> TRUE, IsDir |-> FALSE]

WalkErr(srcPath) == [kind |-> "walk", path |-> srcPath, names |-> <<>>]

\* the filter as it would be if it only turned directories away
parseFilter_AllFiles(excludes, name) == TRUE

\* parser.ParseDir with loadProgram's filter (ast.go:94-96): the files the
\* filter accepts, grouped by the package identifier they declare
parseFilter(excludes, name) == ~Match(excludes, name)

ParseDir(srcPath, excludes) ==
    LET d == DirAt(srcPath)
        eligible == {f \in fs.dirs[d].files : parseFilter(excludes, f.name)}
        ids == {f.pkg : f \in eligible}
        fileOf(path) == CHOOSE f \in eligible : Join(srcPath, f.name) = path
    IN  [err  |-> fs.dirs[d].cond = "syntaxErr" /\ eligible # {},
         pkgs |-> [id \in ids |->
                     [Name  |-> id,
                      Files |-> [path \in {Join(srcPath, f.name) :
                                             f \in {g \in eligible : g.pkg = id}}
                                   |-> fileOf(path)]]]]

\* validateInput without the test for the path's existence
validateInput_OnlyEmpty(path) ==
    IF IsPathEmpty(path)
    THEN [kind |-> "input", path |-> path, names |-> <<>>]
    ELSE NoErr

validateInput(path) ==
    IF IsPathEmpty(path)
    THEN [kind |-> "input", path |-> path, names |-> <<>>]
    ELSE IF ~fs.exists
    THEN [kind |-> "input", path |-> path, names |-> <<>>]
    ELSE NoErr

\* &packageInfo{}
NilPkg == [Pkg      |-> [Name |-> "", Files |-> EmptyMap],
           Types    |-> EmptyMap,
           Path     |-> <<>>,
           FilePath |-> <<>>,
           Files    |-> <<>>]

\* validatePkgAndGet without the test for more than one package
validatePkgAndGet_AnyCount(pkgs, path, ord) ==
    IF Cardinality(DOMAIN pkgs) = 0 THEN [has |-> FALSE, pkg |-> NilPkg, err |-> NoErr]
    ELSE [has |-> TRUE,
          pkg |-> [NilPkg EXCEPT !.Pkg = pkgs[CHOOSE k \in DOMAIN pkgs : TRUE]],
          err |-> NoErr]

\* ord: the order in which this run's map iterations deliver package names
validatePkgAndGet(pkgs, path, ord) ==
    LET pkgCnt == Cardinality(DOMAIN pkgs) IN
    IF pkgCnt = 0 THEN [has |-> FALSE, pkg |-> NilPkg, err |-> NoErr]
    ELSE IF pkgCnt > 1
    THEN [has |-> FALSE, pkg |-> NilPkg,
          err |-> [kind |-> "multi", path |-> path,
                   names |-> InOrder(ord, DOMAIN pkgs)]]
    ELSE [has |-> TRUE,
          pkg |-> [NilPkg EXCEPT !.Pkg = pkgs[CHOOSE k \in DOMAIN pkgs : TRUE]],
          err |-> NoErr]

\* panics (slice bounds out of range) when fewer than idx+4 characters
stripGoPath(pkgFilePath) ==
    LET idx == Index(pkgFilePath, S_src) IN
    IF idx + 4 > Len(pkgFilePath)
    THEN [panic |-> TRUE, val |-> <<>>]
    ELSE [panic |-> FALSE, val |-> Clean(SliceFrom(pkgFilePath, idx + 4))]

\* the function literal loadProgram passes to ess.Walk (ast.go:70-120).
\* acc holds prg.Packages, errs and the history; the result pairs the new
\* acc with the value the callback returns (nil, SkipDir) or "panic".
Ret(acc, srcPath, ret) ==
    [acc |-> [acc EXCEPT !.visited = Append(@, [path |-> srcPath, ret |-> ret]),
                         !.panic = (ret = "panic")],
     ret |-> ret]

\* the test of ast.go:88 as it would be if it asked for eligible files
skipEmptyDir_NoEligible(info, srcPath) ==
    /\ info.IsDir
    /\ \A f \in fs.dirs[DirAt(srcPath)].files : Match(fs.excludes, f.name)

\* the test of ast.go:88
skipEmptyDir(info, srcPath) == info.IsDir /\ IsDirEmpty(srcPath)

callback(srcPath, info, err, acc, excludes, ord) ==
    LET a1 == IF err # NoErr THEN [acc EXCEPT !.errs = Append(@, err)] ELSE acc IN
    IF Match(excludes, Base(srcPath))
    THEN IF ~info.valid THEN Ret(a1, srcPath, "panic")
         ELSE IF info.IsDir THEN Ret(a1, srcPath, "SkipDir")
         ELSE Ret(a1, srcPath, "nil")
    ELSE IF ~info.valid THEN Ret(a1, srcPath, "panic")
    ELSE IF ~info.IsDir THEN Ret(a1, srcPath, "nil")
    ELSE IF skipEmptyDir(info, srcPath) THEN Ret(a1, srcPath, "SkipDir")
    ELSE LET parsed == ParseDir(srcPath, excludes) IN
         IF parsed.err
         THEN Ret([a1 EXCEPT !.errs = Append(@, [kind |-> "parse",
                                 path |-> srcPath, names |-> <<>>])],
                  srcPath, "nil")
         ELSE LET v == validatePkgAndGet(parsed.pkgs, srcPath, ord) IN
              IF v.err # NoErr
              THEN Ret([a1 EXCEPT !.errs = Append(@, v.err)], srcPath, "nil")
              ELSE IF v.has
              THEN LET stripped == stripGoPath(srcPath) IN
                   IF stripped.panic THEN Ret(a1, srcPath, "panic")
                   ELSE Ret([a1 EXCEPT !.pkgs = Append(@,
                                 [v.pkg EXCEPT !.FilePath = srcPath,
                                               !.Path = stripped.val])],
                            srcPath, "nil")
              ELSE Ret(a1, srcPath, "nil")

\* ess.Walk, with the contract of filepath.Walk: entries in lexical order,
\* depth first; an entry whose lstat fails is handed to the callback with no
\* file info; a directory that cannot be listed is handed to it with the
\* error and is not entered; SkipDir keeps the walk out of the directory.
RECURSIVE walk(_, _, _, _), walkEntries(_, _, _, _, _)
walk(d, acc, excludes, ord) ==
    LET srcPath == PathOf(d) IN
    IF fs.dirs[d].cond = "lstatFail"
    THEN callback(srcPath, NoInfo, WalkErr(srcPath), acc, excludes, ord).acc
    ELSE IF fs.dirs[d].cond = "readFail"
    THEN callback(srcPath, DirInfo, WalkErr(srcPath), acc, excludes, ord).acc
    ELSE LET r1 == callback(srcPath, DirInfo, NoErr, acc, excludes, ord) IN
         IF r1.ret # "nil" THEN r1.acc
         ELSE walkEntries(d, Entries(d), r1.acc, excludes, ord)

walkEntries(d, names, acc, excludes, ord) ==
    IF names = <<>> \/ acc.panic THEN acc
    ELSE LET n == Head(names)
             a1 == IF n \in SubDirNames(d)
                   THEN walk(Append(d, n), acc, excludes, ord)
                   ELSE callback(Join(PathOf(d), n), FileInfo, NoErr, acc,
                                 excludes, ord).acc
         IN  walkEntries(d, Tail(names), a1, excludes, ord)

loadProgram(path, excludes, ord) ==
    LET err == validateInput(path) IN
    IF err # NoErr
    THEN [prg |-> NilPrg, errs |-> <<err>>, visited |-> <<>>, panic |-> FALSE]
    ELSE LET acc == walk(<<>>, [pkgs |-> <<>>, errs |-> <<>>, visited |-> <<>>,
                                panic |-> FALSE], excludes, ord)
         IN  [prg     |-> [isNil |-> FALSE, Path |-> path, Packages |-> acc.pkgs],
              errs    |-> acc.errs,
              visited |-> acc.visited,
              panic   |-> acc.panic]

----------------------------------------------------------------------------
(* go/ast values.  A file is [name, pkg, decls]; a declaration is           *)
(* [tok, specs]; expressions are tagged records.                            *)

Ident(n) == [shape |-> "ident", name |-> n]
Selector(x, n) == [shape |-> "selector", x |-> x, sel |-> n]
Star(x) == [shape |-> "star", x |-> x]
OtherExpr == [shape |-> "other"]

StructType(fields) == [kind |-> "struct", fields |-> fields]
OtherType(kind) == [kind |-> kind, fields |-> <<>>]

Field(names, type) == [names |-> names, type |-> type]
TypeSpec(name, type) == [name |-> name, type |-> type]
\* an *ast.ImportSpec: name is "" when spec.Name is nil; the path literal
\* keeps its quotes
ImportSpec(name, path) == [name |-> name, value |-> <<"\"">> \o path \o <<"\"">>]
GenDecl(tok, specs) == [tok |-> tok, specs |-> specs]
File(name, pkg, decls) == [name |-> name, pkg |-> pkg, decls |-> decls]

isImportTok(decl) == decl.tok = "import"

isTypeTok(decl) == decl.tok = "type"

\* findPkgAndTypeName as it would be with `if` in place of the loop over
\* pointer wrappers
findPkgAndTypeName_OneStar(fieldType0) ==
    LET e == IF fieldType0.shape = "star" THEN fieldType0.x ELSE fieldType0 IN
    IF e.shape = "ident" THEN <<"", e.name>>
    ELSE IF e.shape = "selector" /\ e.x.shape = "ident"
    THEN <<e.x.name, e.sel>>
    ELSE <<"", "">>

RECURSIVE findPkgAndTypeName(_)
findPkgAndTypeName(fieldType0) ==
    IF fieldType0.shape = "star" THEN findPkgAndTypeName(fieldType0.x)
    ELSE IF fieldType0.shape = "ident" THEN <<"", fieldType0.name>>
    ELSE IF fieldType0.shape = "selector" /\ fieldType0.x.shape = "ident"
    THEN <<fieldType0.x.name, fieldType0.sel>>
    ELSE <<"", "">>

\* structFields as it would be if it recorded an edge for every field with a
\* type name, named fields included
RECURSIVE structFields_EveryField(_, _)
structFields_EveryField(fields, ty) ==
    IF fields = <<>> THEN ty
    ELSE LET found2 == findPkgAndTypeName(Head(fields).type) IN
         IF IsStrEmpty(found2[2]) THEN structFields_EveryField(Tail(fields), ty)
         ELSE structFields_EveryField(Tail(fields),
                  [ty EXCEPT !.EmbeddedTypes = Append(@,
                      [Name |-> found2[2], Package |-> found2[1],
                       EmbeddedTypes |-> <<>>])])

\* the loop of processTypes over the fields of a struct (ast.go:199-212):
\* ty as the loop leaves it
RECURSIVE structFields(_, _)
structFields(fields, ty) ==
    IF fields = <<>> THEN ty
    ELSE LET field == Head(fields) IN
         IF Len(field.names) > 0 THEN structFields(Tail(fields), ty)
         ELSE LET found2 == findPkgAndTypeName(field.type)
                  fTypeName == found2[2]
              IN  IF IsStrEmpty(fTypeName) THEN structFields(Tail(fields), ty)
                  ELSE structFields(Tail(fields), ty)

\* p.Types after processTypes(decl, imports); decl.Specs[0] of an empty
\* declaration is an index out of range
processTypes(types, decl, imports) ==
    IF decl.specs = <<>> THEN [panic |-> TRUE, types |-> types]
    ELSE LET spec == decl.specs[1]
             typeName == spec.name
             ty0 == [Name |-> typeName, Package |-> "", EmbeddedTypes |-> <<>>]
             ty == IF spec.type.kind = "struct"
                   THEN structFields(spec.type.fields, ty0)
                   ELSE ty0
             key == ToLower(typeName)
         IN  [panic |-> FALSE,
              types |-> [k \in DOMAIN types \cup {key} |->
                           IF k = key THEN ty ELSE types[k]]]

\* go/build.Import(importPath, srcDir, 0): the package name, "" on error
BuildImport(importPath, srcDir) ==
    IF importPath \in DOMAIN fs.ext /\ srcDir \in DOMAIN fs.ext[importPath]
    THEN fs.ext[importPath][srcDir]
    ELSE ""

MapPut(m, k, v) == [x \in DOMAIN m \cup {k} |-> IF x = k THEN v ELSE m[x]]

\* importSpecs without the write to buildImportCache of ast.go:243
RECURSIVE importSpecs_NoCacheWrite(_, _, _)
importSpecs_NoCacheWrite(specs, filePath, st) ==
    IF specs = <<>> THEN st
    ELSE LET spec == Head(specs)
             rest == Tail(specs)
             importPath == SubSeq(spec.value, 2, Len(spec.value) - 1)
         IN
         IF spec.name = "_" THEN importSpecs_NoCacheWrite(rest, filePath, st)
         ELSE IF ~IsStrEmpty(spec.name)
         THEN importSpecs_NoCacheWrite(rest, filePath,
                  [st EXCEPT !.imports = MapPut(@, spec.name, importPath)])
         ELSE IF importPath \in DOMAIN st.cache
         THEN importSpecs_NoCacheWrite(rest, filePath,
                  [st EXCEPT !.imports = MapPut(@, st.cache[importPath], importPath),
                             !.log = Append(@, [path |-> importPath, dir |-> filePath,
                                                hit |-> TRUE,
                                                alias |-> st.cache[importPath]])])
         ELSE LET name == BuildImport(importPath, filePath) IN
              importSpecs_NoCacheWrite(rest, filePath,
                  [st EXCEPT !.imports = IF name = "" THEN @
                                         ELSE MapPut(@, name, importPath),
                             !.log = Append(@, [path |-> importPath,
                                      dir |-> filePath, hit |-> FALSE, alias |-> name])])

\* importSpecs as it would be if a failed lookup ended the loop over the
\* declaration's specs
RECURSIVE importSpecs_StopAtFailure(_, _, _)
importSpecs_StopAtFailure(specs, filePath, st) ==
    IF specs = <<>> THEN st
    ELSE LET spec == Head(specs)
             rest == Tail(specs)
             importPath == SubSeq(spec.value, 2, Len(spec.value) - 1)
         IN
         IF spec.name = "_" THEN importSpecs_StopAtFailure(rest, filePath, st)
         ELSE IF ~IsStrEmpty(spec.name)
         THEN importSpecs_StopAtFailure(rest, filePath,
                  [st EXCEPT !.imports = MapPut(@, spec.name, importPath)])
         ELSE IF importPath \in DOMAIN st.cache
         THEN importSpecs_StopAtFailure(rest, filePath,
                  [st EXCEPT !.imports = MapPut(@, st.cache[importPath], importPath),
                             !.log = Append(@, [path |-> importPath, dir |-> filePath,
                                                hit |-> TRUE,
                                                alias |-> st.cache[importPath]])])
         ELSE LET name == BuildImport(importPath, filePath) IN
              IF name = ""
              THEN [st EXCEPT !.log = Append(@, [path |-> importPath,
                                      dir |-> filePath, hit |-> FALSE, alias |-> ""])]
              ELSE importSpecs_StopAtFailure(rest, filePath,
                       [st EXCEPT !.imports = MapPut(@, name, importPath),
                                  !.cache = MapPut(@, importPath, name),
                                  !.log = Append(@, [path |-> importPath,
                                      dir |-> filePath, hit |-> FALSE, alias |-> name])])

\* importSpecs without the test for the discard identifier of ast.go:225
RECURSIVE importSpecs_DiscardKept(_, _, _)
importSpecs_DiscardKept(specs, filePath, st) ==
    IF specs = <<>> THEN st
    ELSE LET spec == Head(specs)
             rest == Tail(specs)
             importPath == SubSeq(spec.value, 2, Len(spec.value) - 1)
         IN
         IF ~IsStrEmpty(spec.name)
         THEN importSpecs_DiscardKept(rest, filePath,
                  [st EXCEPT !.imports = MapPut(@, spec.name, importPath)])
         ELSE IF importPath \in DOMAIN st.cache
         THEN importSpecs_DiscardKept(rest, filePath,
                  [st EXCEPT !.imports = MapPut(@, st.cache[importPath], importPath),
                             !.log = Append(@, [path |-> importPath, dir |-> filePath,
                                                hit |-> TRUE,
                                                alias |-> st.cache[importPath]])])
         ELSE LET name == BuildImport(importPath, filePath) IN
              IF name = ""
              THEN importSpecs_DiscardKept(rest, filePath,
                       [st EXCEPT !.log = Append(@, [path |-> importPath,
                                      dir |-> filePath, hit |-> FALSE, alias |-> ""])])
              ELSE importSpecs_DiscardKept(rest, filePath,
                       [st EXCEPT !.imports = MapPut(@, name, importPath),
                                  !.cache = MapPut(@, importPath, name),
                                  !.log = Append(@, [path |-> importPath,
                                      dir |-> filePath, hit |-> FALSE, alias |-> name])])

\* processImports(decl) of the package at filePath.  st carries the mapping
\* built so far, buildImportCache and the history of lookups.
RECURSIVE importSpecs(_, _, _)
importSpecs(specs, filePath, st) ==
    IF specs = <<>> THEN st
    ELSE LET spec == Head(specs)
             rest == Tail(specs)
             importPath == SubSeq(spec.value, 2, Len(spec.value) - 1)
         IN
         IF spec.name = "_" THEN importSpecs(rest, filePath, st)
         ELSE IF ~IsStrEmpty(spec.name)
         THEN importSpecs(rest, filePath,
                  [st EXCEPT !.imports = MapPut(@, spec.name, importPath)])
         ELSE IF importPath \in DOMAIN st.cache
         THEN importSpecs(rest, filePath,
                  [st EXCEPT !.imports = MapPut(@, st.cache[importPath], importPath),
                             !.log = Append(@, [path |-> importPath, dir |-> filePath,
                                                hit |-> TRUE,
                                                alias |-> st.cache[importPath]])])
         ELSE LET name == BuildImport(importPath, filePath) IN
              IF name = ""
              THEN importSpecs(rest, filePath,
                       [st EXCEPT !.log = Append(@, [path |-> importPath,
                                      dir |-> filePath, hit |-> FALSE, alias |-> ""])])
              ELSE importSpecs(rest, filePath,
                       [st EXCEPT !.imports = MapPut(@, name, importPath),
                                  !.cache = MapPut(@, importPath, name),
                                  !.log = Append(@, [path |-> importPath,
                                      dir |-> filePath, hit |-> FALSE, alias |-> name])])

processImports(decl, filePath, cache, log) ==
    importSpecs(decl.specs, filePath,
                [imports |-> EmptyMap, cache |-> cache, log |-> log])

\* the first loop of Process over a file's declarations (ast.go:160-166)
RECURSIVE collectImports(_, _, _)
collectImports(decls, filePath, st) ==
    IF decls = <<>> THEN st
    ELSE IF isImportTok(Head(decls))
    THEN collectImports(Tail(decls), filePath,
                        processImports(Head(decls), filePath, st.cache, st.log))
    ELSE collectImports(Tail(decls), filePath, st)

\* the second loop (ast.go:169-175)
RECURSIVE collectTypes(_, _, _)
collectTypes(decls, imports, r) ==
    IF decls = <<>> \/ r.panic THEN r
    ELSE IF isTypeTok(Head(decls))
    THEN collectTypes(Tail(decls), imports, processTypes(r.types, Head(decls), imports))
    ELSE collectTypes(Tail(decls), imports, r)

\* the loop of Process over the files of the package, in the order names
RECURSIVE processFiles(_, _)
processFiles(names, st) ==
    IF names = <<>> \/ st.panic THEN st
    ELSE LET name == Head(names)
             file == st.pkg.Pkg.Files[name]
             imp == collectImports(file.decls, st.pkg.FilePath,
                        [imports |-> EmptyMap, cache |-> st.cache, log |-> st.log])
             typ == collectTypes(file.decls, imp.imports,
                        [panic |-> FALSE, types |-> st.pkg.Types])
         IN  processFiles(Tail(names),
                 [pkg    |-> [st.pkg EXCEPT !.Files = Append(@, Base(name)),
                                            !.Types = typ.types],
                  cache  |-> imp.cache,
                  log    |-> imp.log,
                  handed |-> MapPut(st.handed, name, imp.imports),
                  panic  |-> typ.panic])

\* FindPackage as it would be without the return inside the loop
FindPackage_Last(p, packageName) ==
    IF \E i \in DOMAIN p.Packages : p.Packages[i].Pkg.Name = packageName
    THEN CHOOSE i \in DOMAIN p.Packages :
             /\ p.Packages[i].Pkg.Name = packageName
             /\ \A j \in (i + 1)..Len(p.Packages) : p.Packages[j].Pkg.Name # packageName
    ELSE 0

\* FindPackage as it would be if it fell back on the first package
FindPackage_OrFirst(p, packageName) ==
    IF \E i \in DOMAIN p.Packages : p.Packages[i].Pkg.Name = packageName
    THEN CHOOSE i \in DOMAIN p.Packages :
             /\ p.Packages[i].Pkg.Name = packageName
             /\ \A j \in 1..(i - 1) : p.Packages[j].Pkg.Name # packageName
    ELSE IF p.Packages # <<>> THEN 1 ELSE 0

\* index in p.Packages of the package FindPackage returns, 0 for nil
FindPackage(p, packageName) ==
    IF \E i \in DOMAIN p.Packages : p.Packages[i].Pkg.Name = packageName
    THEN CHOOSE i \in DOMAIN p.Packages :
             /\ p.Packages[i].Pkg.Name = packageName
             /\ \A j \in 1..(i - 1) : p.Packages[j].Pkg.Name # packageName
    ELSE 0

----------------------------------------------------------------------------
(* The embedding query (prg.FindTypeByEmbeddedType, called at               *)
(* build.go:89).  Edges are (Package, Name) pairs in EmbeddedTypes, an      *)
(* empty Package meaning the record's own package; a non-empty one is an    *)
(* alias of the file that declares the record.                              *)

DeclaredIn(file) ==
    {file.decls[i].specs[j].name :
        <<i, j>> \in {x \in (DOMAIN file.decls) \X (1..4) :
                        /\ isTypeTok(file.decls[x[1]])
                        /\ x[2] \in DOMAIN file.decls[x[1]].specs}}

FileImportsOf(pkg, typeName) ==
    LET names == {n \in DOMAIN pkg.Pkg.Files :
                    /\ n \in DOMAIN handed
                    /\ typeName \in DeclaredIn(pkg.Pkg.Files[n])}
    IN  IF names = {} THEN EmptyMap ELSE handed[CHOOSE n \in names : TRUE]

\* the record an edge of rec (a record of package i) refers to:
\* [ok, pkg (index), key]
ResolveEdge(p, i, rec, edge) ==
    LET imports == FileImportsOf(p.Packages[i], rec.Name)
        targets == IF edge.Package = "" THEN {i}
                   ELSE IF edge.Package \in DOMAIN imports
                   THEN {j \in DOMAIN p.Packages :
                           p.Packages[j].Path = imports[edge.Package]}
                   ELSE {}
        key == ToLower(edge.Name)
        hits == {j \in targets : key \in DOMAIN p.Packages[j].Types}
    IN  IF hits = {} THEN [ok |-> FALSE, pkg |-> 0, key |-> key]
        ELSE [ok |-> TRUE, pkg |-> CHOOSE j \in hits : \A h \in hits : j <= h,
              key |-> key]

RECURSIVE Reaches(_, _, _, _, _)
Reaches(p, i, rec, marker, seen) ==
    \E e \in Range(rec.EmbeddedTypes) :
        LET r == ResolveEdge(p, i, rec, e) IN
        /\ r.ok
        /\ LET target == p.Packages[r.pkg].Types[r.key] IN
           \/ /\ p.Packages[r.pkg].Path = marker.pkg
              /\ target.Name = marker.name
           \/ /\ <<r.pkg, r.key>> \notin seen
              /\ Reaches(p, r.pkg, target, marker, seen \cup {<<r.pkg, r.key>>})

FindTypeByEmbeddedType(p, marker) ==
    {[pkg |-> p.Packages[i].Path, name |-> p.Packages[i].Types[k].Name] :
        <<i, k>> \in {x \in (DOMAIN p.Packages) \X
                            UNION {DOMAIN p.Packages[j].Types : j \in DOMAIN p.Packages} :
                        /\ x[2] \in DOMAIN p.Packages[x[1]].Types
                        /\ Reaches(p, x[1], p.Packages[x[1]].Types[x[2]], marker,
                                   {<<x[1], x[2]>>})}}

----------------------------------------------------------------------------
(* Inputs *)

Root1 == <<"/", "r">>
Root2 == <<"/", "s", "r", "c", "/", "r">>

IP_r == <<"r">>
IP_ra == <<"r", "/", "a">>
IP_x == <<"x">>

Excl1 == {T_go}
Excl2 == {T_go, S_a}

TypeDecl(name, type) == GenDecl("type", <<TypeSpec(name, type)>>)
Embed(type) == Field(<<>>, type)

\* files of the trees that exercise the walk
LF_p == File(F_go, "p", <<TypeDecl("A", StructType(<<>>))>>)
LG_q == File(G_go, "q", <<TypeDecl("B", StructType(<<>>))>>)
LT_q == File(T_go, "q", <<TypeDecl("U", StructType(<<>>))>>)
LT_p == File(T_go, "p", <<TypeDecl("U", StructType(<<>>))>>)

KNone == {}
KOne == {LF_p, LT_q}
KTwo == {LF_p, LG_q}
KExcl == {LT_p}
Kinds == {KNone, KOne, KTwo, KExcl}

\* files of the trees that exercise Process
X1 == File(F_go, "p", <<
        GenDecl("import", <<ImportSpec("", IP_ra)>>),
        TypeDecl("M", StructType(<<>>)),
        TypeDecl("A", StructType(<<Embed(Ident("M"))>>)),
        TypeDecl("B", StructType(<<Embed(Star(Ident("A"))),
                                   Field(<<"n">>, Ident("U"))>>)),
        TypeDecl("U", StructType(<<Field(<<"u">>, Ident("int"))>>)) >>)

X2 == File(G_go, "p", <<
        GenDecl("import", <<ImportSpec("m", IP_ra)>>),
        GenDecl("import", <<ImportSpec("_", IP_x), ImportSpec("y", IP_x),
                            ImportSpec("", IP_ra)>>),
        GenDecl("type", <<TypeSpec("Foo", StructType(<<Embed(Selector(Ident("m"), "M"))>>)),
                          TypeSpec("Bar", StructType(<<Embed(Ident("Foo"))>>))>>),
        GenDecl("var", <<>>),
        TypeDecl("foo", OtherType("interface")) >>)

X3 == File(H_go, "p", <<
        GenDecl("import", <<ImportSpec("k", IP_ra), ImportSpec("", IP_x)>>),
        TypeDecl("Ca", StructType(<<Embed(Ident("Cb"))>>)),
        TypeDecl("Cb", StructType(<<Embed(Star(Star(Ident("Ca")))),
                                    Field(<<"m">>, Selector(Ident("k"), "M"))>>)),
        TypeDecl("Cs", StructType(<<Embed(Ident("Cs")), Embed(OtherExpr)>>)),
        TypeDecl("Cx", StructType(<<Embed(Selector(Ident("x"), "Z"))>>)),
        TypeDecl("Cf", OtherType("func")) >>)

Y1 == File(F_go, "q", <<TypeDecl("M", StructType(<<>>))>>)

Y2 == File(G_go, "q", <<
        GenDecl("import", <<ImportSpec("", IP_x)>>),
        TypeDecl("N", StructType(<<Embed(Star(Ident("M")))>>)) >>)

Y3 == File(H_go, "q", <<
        GenDecl("import", <<ImportSpec("", IP_x), ImportSpec("w", IP_r),
                            ImportSpec("", IP_ra)>>),
        TypeDecl("E", StructType(<<Embed(Selector(Ident("w"), "M"))>>)) >>)

Z1 == File(F_go, "p", <<
        GenDecl("import", <<ImportSpec("", IP_ra)>>),
        TypeDecl("D", StructType(<<Embed(Selector(Ident("q"), "M"))>>)) >>)

\* go/build's answers for an import path, by importing directory
ExtOf(behaviour, name) ==
    [dir \in {Root2, Join(Root2, S_a), Join(Root2, S_src)} |->
        CASE behaviour = "fail" -> ""
          [] behaviour = "same" -> name
          [] OTHER -> IF dir = Root2 THEN name ELSE "v"]

NoExt == [x \in {} |-> EmptyMap]

AllDirs == {<<>>} \cup {<<n>> : n \in DirNames}
               \cup {<<n, m>> : n \in DirNames, m \in DirNames}

Shapes ==
    {sh \in SUBSET AllDirs :
        /\ <<>> \in sh
        /\ Cardinality(sh) <= MaxDirs
        /\ \A d \in sh : Len(d) = 2 => <<d[1]>> \in sh}

Envs == {[root |-> Root1, excludes |-> Excl1],
         [root |-> Root2, excludes |-> Excl1],
         [root |-> Root2, excludes |-> Excl2]}

ProcessNames == PkgIds \cup {"zz"}

Markers == {[pkg |-> IP_ra, name |-> "M"], [pkg |-> IP_r, name |-> "M"]}

NotFound == [done |-> FALSE, marker |-> [pkg |-> <<>>, name |-> ""], types |-> {}]

NotClassified == [done |-> FALSE, of |-> OtherExpr, pkg |-> "", name |-> ""]

InitRest ==
    /\ pc = "start"
    /\ prg = NilPrg
    /\ errs = <<>>
    /\ visited = <<>>
    /\ buildImportCache = EmptyMap
    /\ handed = EmptyMap
    /\ lookups = <<>>
    /\ lastErr = ""
    /\ calls = 0
    /\ found = NotFound
    /\ fieldType = OtherExpr
    /\ classified = NotClassified

\* trees for the walk: any shape, any kind of content in the root and its
\* sub-directories, no files or one package in the directories below them;
\* a tree of packages with one directory the walker or the parser fails on;
\* a root that is no valid input
InitLoad ==
    /\ \/ \E env \in Envs, sh \in Shapes :
            \E k \in [sh -> Kinds] :
                /\ \A d \in sh : Len(d) = 2 => k[d] \in {KNone, KOne}
                /\ fs = [root |-> env.root, exists |-> TRUE,
                         excludes |-> env.excludes, ext |-> NoExt,
                         dirs |-> [d \in sh |-> [files |-> k[d], cond |-> "ok"]]]
       \/ \E sh \in Shapes :
            \E bad \in sh \ {<<>>}, kbad \in {KOne, KTwo},
               c \in {"lstatFail", "readFail", "syntaxErr"} :
                fs = [root |-> Root2, exists |-> TRUE, excludes |-> Excl1,
                      ext |-> NoExt,
                      dirs |-> [d \in sh |->
                                  IF d = bad THEN [files |-> kbad, cond |-> c]
                                  ELSE [files |-> KOne, cond |-> "ok"]]]
       \/ \E r \in {<<>>, Root1}, e \in BOOLEAN :
            /\ (r = <<>>) = e
            /\ fs = [root |-> r, exists |-> e, excludes |-> Excl1, ext |-> NoExt,
                     dirs |-> [d \in {<<>>} |-> [files |-> KOne, cond |-> "ok"]]]
    /\ InitRest

\* trees for Process: package p at the root, optionally package q in a and
\* a second package p in src
InitProc ==
    /\ \E rootFiles \in {S \in SUBSET {X1, X2, X3} : Cardinality(S) \in 1..2},
          aFiles \in SUBSET {Y1, Y2} \cup {{Y1, Y3}}, withSrc \in BOOLEAN,
          extRA \in {"fail", "same"}, extX \in {"fail", "same", "vendored"} :
            fs = [root |-> Root2, exists |-> TRUE, excludes |-> Excl1,
                  ext |-> [ip \in {IP_ra, IP_x} |->
                             IF ip = IP_ra THEN ExtOf(extRA, "q") ELSE ExtOf(extX, "x")],
                  dirs |-> [d \in {<<>>} \cup (IF aFiles = {} THEN {} ELSE {<<S_a>>})
                                        \cup (IF withSrc THEN {<<S_src>>} ELSE {}) |->
                              [files |-> IF d = <<>> THEN rootFiles
                                         ELSE IF d = <<S_a>> THEN aFiles ELSE {Z1},
                               cond |-> "ok"]]]
    /\ InitRest

----------------------------------------------------------------------------
(* Actions *)

\* buildApp calls loadProgram and stops when it reports errors
\* (build.go:62-69)
LoadProgram(ord) ==
    /\ pc = "start"
    /\ LET r == loadProgram(fs.root, fs.excludes, ord) IN
       /\ prg' = r.prg
       /\ errs' = r.errs
       /\ visited' = r.visited
       /\ pc' = IF r.panic THEN "panic"
                ELSE IF Len(r.errs) > 0 THEN "fatal"
                ELSE "loaded"
    /\ UNCHANGED <<fs, buildImportCache, handed, lookups, lastErr, calls, found,
                   fieldType, classified>>

\* prg.Process(packageName); the files of the package come in any order
Process(packageName) ==
    /\ pc = "loaded"
    /\ calls < MaxCalls
    /\ calls' = calls + 1
    /\ LET i == FindPackage(prg, packageName) IN
       IF i = 0
       THEN /\ lastErr' = "package not found"
            /\ UNCHANGED <<prg, buildImportCache, handed, lookups, pc>>
       ELSE \E ord \in Orderings(DOMAIN prg.Packages[i].Pkg.Files) :
              LET r == processFiles(ord,
                           [pkg    |-> [prg.Packages[i] EXCEPT !.Types = EmptyMap],
                            cache  |-> buildImportCache,
                            log    |-> lookups,
                            handed |-> handed,
                            panic  |-> FALSE])
              IN  /\ prg' = [prg EXCEPT !.Packages[i] = r.pkg]
                  /\ buildImportCache' = r.cache
                  /\ lookups' = r.log
                  /\ handed' = r.handed
                  /\ lastErr' = ""
                  /\ pc' = IF r.panic THEN "panic" ELSE "loaded"
    /\ UNCHANGED <<fs, errs, visited, found, fieldType, classified>>

\* the query buildApp makes once Process has run (build.go:72, 89)
Find(marker) ==
    /\ pc = "loaded"
    /\ calls >= 1
    /\ found' = [done |-> TRUE, marker |-> marker,
                 types |-> FindTypeByEmbeddedType(prg, marker)]
    /\ pc' = "done"
    /\ UNCHANGED <<fs, prg, errs, visited, buildImportCache, handed, lookups,
                   lastErr, calls, fieldType, classified>>

Next ==
    \/ \E ord \in Orderings(PkgIds) : LoadProgram(ord)
    \/ \E n \in ProcessNames : Process(n)
    \/ \E m \in Markers : Find(m)

Spec == InitProc /\ [][Next]_vars

SpecLoad == InitLoad /\ [][Next]_vars

----------------------------------------------------------------------------
(* findPkgAndTypeName on its own: a field type is picked, wrapped in        *)
(* pointers any number of times, and classified.                           *)

RECURSIVE Stars(_)
Stars(e) == IF e.shape = "star" THEN 1 + Stars(e.x) ELSE 0

BaseExprs ==
    {Ident(n) : n \in {"M", "A", "U", "int", "Controller"}}
        \cup {Selector(Ident(al), n) : al \in {"m", "k", "aah"}, n \in {"M", "Controller"}}
        \cup {Selector(Selector(Ident("m"), "k"), "M"), Selector(OtherExpr, "M"),
              Selector(Star(Ident("m")), "M"), OtherExpr}

InitExpr ==
    /\ fieldType \in BaseExprs
    /\ classified = NotClassified
    /\ pc = "field"
    /\ fs = [root |-> <<>>, exists |-> FALSE, excludes |-> {}, ext |-> NoExt,
             dirs |-> [d \in {<<>>} |-> [files |-> {}, cond |-> "ok"]]]
    /\ prg = NilPrg
    /\ errs = <<>>
    /\ visited = <<>>
    /\ buildImportCache = EmptyMap
    /\ handed = EmptyMap
    /\ lookups = <<>>
    /\ lastErr = ""
    /\ calls = 0
    /\ found = NotFound

\* the field is declared with one more pointer
WrapStar ==
    /\ pc = "field"
    /\ Stars(fieldType) < MaxStars
    /\ fieldType' = Star(fieldType)
    /\ UNCHANGED <<fs, pc, prg, errs, visited, buildImportCache, handed, lookups,
                   lastErr, calls, found, classified>>

\* processTypes calls findPkgAndTypeName(field.Type) (ast.go:205)
Classify ==
    /\ pc = "field"
    /\ LET r == findPkgAndTypeName(fieldType) IN
       classified' = [done |-> TRUE, of |-> fieldType, pkg |-> r[1], name |-> r[2]]
    /\ UNCHANGED <<fs, pc, prg, errs, visited, buildImportCache, handed, lookups,
                   lastErr, calls, found, fieldType>>

NextExpr == WrapStar \/ Classify

SpecExpr == InitExpr /\ [][NextExpr]_vars

----------------------------------------------------------------------------
(* What the sources declare, read off the syntax trees: the vocabulary of   *)
(* the properties below.                                                    *)

Processed(i) == Len(prg.Packages[i].Files) > 0

SrcFiles(i) == Range(prg.Packages[i].Pkg.Files)

TypeSpecsOf(file) ==
    UNION {Range(file.decls[k].specs) :
             k \in {x \in DOMAIN file.decls : file.decls[x].tok = "type"}}

ImportSpecsOf(file) ==
    UNION {Range(file.decls[k].specs) :
             k \in {x \in DOMAIN file.decls : file.decls[x].tok = "import"}}

SrcTypeSpecs(i) == UNION {TypeSpecsOf(f) : f \in SrcFiles(i)}

SrcTypeNames(i) == {sp.name : sp \in SrcTypeSpecs(i)}

RECURSIVE Unstar(_)
Unstar(e) == IF e.shape = "star" THEN Unstar(e.x) ELSE e

\* the types of a struct's anonymous fields, pointers removed
SrcEmbeds(sp) ==
    IF sp.type.kind = "struct"
    THEN {Unstar(f.type) : f \in {g \in Range(sp.type.fields) : g.names = <<>>}}
    ELSE {}

Unquote(v) == SubSeq(v, 2, Len(v) - 1)

\* the import paths a name denotes in a file: those imported under it, and
\* those imported without alias whose package in the tree has that name
SrcAliasPaths(file, alias) ==
    {Unquote(im.value) : im \in {x \in ImportSpecsOf(file) :
        \/ x.name = alias
        \/ /\ x.name = ""
           /\ \E j \in DOMAIN prg.Packages :
                 /\ prg.Packages[j].Path = Unquote(x.value)
                 /\ prg.Packages[j].Pkg.Name = alias}}

\* the declared types (package index, name) that type sp of package i embeds
SrcTargets(i, sp) ==
    UNION {IF e.shape = "ident"
           THEN {<<i, e.name>>} \cap ({i} \X SrcTypeNames(i))
           ELSE IF e.shape = "selector" /\ e.x.shape = "ident"
           THEN {<<j, e.sel>> : j \in {k \in DOMAIN prg.Packages :
                    /\ Processed(k)
                    /\ e.sel \in SrcTypeNames(k)
                    /\ \E f \in SrcFiles(i) :
                          /\ sp \in TypeSpecsOf(f)
                          /\ prg.Packages[k].Path \in SrcAliasPaths(f, e.x.name)}}
           ELSE {} : e \in SrcEmbeds(sp)}

SrcSucc(node) ==
    UNION {SrcTargets(node[1], sp) :
             sp \in {x \in SrcTypeSpecs(node[1]) : x.name = node[2]}}

RECURSIVE SrcReach(_, _, _)
SrcReach(node, goals, seen) ==
    \E n \in SrcSucc(node) :
        \/ n \in goals
        \/ n \notin seen /\ SrcReach(n, goals, seen \cup {n})

MarkerNodes(m) ==
    {<<j, m.name>> : j \in {k \in DOMAIN prg.Packages :
                              /\ prg.Packages[k].Path = m.pkg
                              /\ Processed(k)
                              /\ m.name \in SrcTypeNames(k)}}

Hit(i, name) == [pkg |-> prg.Packages[i].Path, name |-> name]

HasEdge(i, name, alias, target) ==
    /\ ToLower(name) \in DOMAIN prg.Packages[i].Types
    /\ \E e \in Range(prg.Packages[i].Types[ToLower(name)].EmbeddedTypes) :
          e.Package = alias /\ e.Name = target

----------------------------------------------------------------------------
(* Properties *)

\* C1: once the query for marker M has run, every type of a processed
\* package that has an anonymous field of type M or *M, M declared in the
\* same package, is in the result, and its Type Record holds the edge
\* (empty alias, M).
C1_DirectEmbedIsFound ==
    found.done =>
        \A i \in DOMAIN prg.Packages : \A sp \in SrcTypeSpecs(i) :
            ( /\ Processed(i)
              /\ prg.Packages[i].Path = found.marker.pkg
              /\ found.marker.name \in SrcTypeNames(i)
              /\ Ident(found.marker.name) \in SrcEmbeds(sp) )
            => /\ HasEdge(i, sp.name, "", found.marker.name)
               /\ Hit(i, sp.name) \in found.types

\* C2: once the query for marker M has run, every type of a processed
\* package whose chain of embeddings (through declared types of processed
\* packages, across import aliases) ends in M is in the result, and every
\* type whose embeddings never reach M is not.
C2_ChainIsFound ==
    found.done =>
        \A i \in DOMAIN prg.Packages : \A sp \in SrcTypeSpecs(i) :
            Processed(i) =>
                (SrcReach(<<i, sp.name>>, MarkerNodes(found.marker), {<<i, sp.name>>})
                    <=> Hit(i, sp.name) \in found.types)

VisitedPaths == {visited[k].path : k \in DOMAIN visited}

RetsOf(path) == {visited[k].ret : k \in {x \in DOMAIN visited : visited[x].path = path}}

Eligible(d) == {f \in fs.dirs[d].files : f.name \notin fs.excludes}

DeclaredIds(d) == {f.pkg : f \in Eligible(d)}

ErrsAt(path) == {k \in DOMAIN errs : errs[k].path = path}

PkgsAt(path) == {i \in DOMAIN prg.Packages : prg.Packages[i].FilePath = path}

\* the packages located strictly below directory d
PkgsBelow(d) ==
    {i \in DOMAIN prg.Packages :
        \E e \in DOMAIN fs.dirs :
            /\ Len(e) > Len(d)
            /\ SubSeq(e, 1, Len(d)) = d
            /\ prg.Packages[i].FilePath = PathOf(e)}

SubDirsVisited(d) == \A n \in SubDirNames(d) : PathOf(Append(d, n)) \in VisitedPaths

\* a directory the walk handed to the callback, whose name is not excluded
\* and whose files the parser read without error
ParsedDir(d) ==
    /\ PathOf(d) \in VisitedPaths
    /\ fs.dirs[d].cond = "ok"
    /\ Base(PathOf(d)) \notin fs.excludes

\* C4: for every directory that was parsed and whose files declare two or
\* more package identifiers, no packageInfo is appended, exactly one error
\* is appended, naming each identifier once and the directory, and the walk
\* goes on (the callback returns nil, the sub-directories are visited).
C4_MultiplePackages ==
    pc # "start" =>
        \A d \in DOMAIN fs.dirs :
            (ParsedDir(d) /\ Cardinality(DeclaredIds(d)) >= 2) =>
                /\ PkgsAt(PathOf(d)) = {}
                /\ Cardinality(ErrsAt(PathOf(d))) = 1
                /\ \A k \in ErrsAt(PathOf(d)) :
                      /\ errs[k].kind = "multi"
                      /\ Range(errs[k].names) = DeclaredIds(d)
                      /\ Len(errs[k].names) = Cardinality(DeclaredIds(d))
                /\ RetsOf(PathOf(d)) = {"nil"}
                /\ pc # "panic" => SubDirsVisited(d)

\* loadProgram has returned; a directory with two package identifiers gave
\* one error and a package below it was still loaded
C4_Witness ==
    /\ pc = "fatal"
    /\ \E d \in DOMAIN fs.dirs :
          /\ ParsedDir(d)
          /\ Cardinality(DeclaredIds(d)) >= 2
          /\ Cardinality(ErrsAt(PathOf(d))) = 1
          /\ PkgsBelow(d) # {}

\* C5 as stated: a directory without eligible source files yields no
\* packageInfo, and no package located below it is in the Program.
C5_EmptyDirPrunesSubtree ==
    pc \in {"loaded", "fatal"} =>
        \A d \in DOMAIN fs.dirs :
            Eligible(d) = {} => PkgsAt(PathOf(d)) = {} /\ PkgsBelow(d) = {}

HasEntries(d) == fs.dirs[d].files # {} \/ SubDirNames(d) # {}

\* C5 amended: a directory without eligible source files yields no
\* packageInfo; the callback keeps the walk out of it (SkipDir) exactly when
\* its name is excluded or it has no entry at all, and otherwise the walk
\* goes on into its sub-directories.
C5_EmptyDirYieldsNoPackage ==
    pc # "start" =>
        \A d \in DOMAIN fs.dirs :
            (PathOf(d) \in VisitedPaths /\ fs.dirs[d].cond = "ok" /\ Eligible(d) = {}) =>
                /\ PkgsAt(PathOf(d)) = {}
                /\ RetsOf(PathOf(d)) =
                      IF Base(PathOf(d)) \in fs.excludes \/ ~HasEntries(d)
                      THEN {"SkipDir"} ELSE {"nil"}
                /\ (RetsOf(PathOf(d)) = {"nil"} /\ pc # "panic") => SubDirsVisited(d)

\* loadProgram has returned a package located below a directory that has
\* entries but no eligible source file
C5_Witness ==
    /\ pc = "loaded"
    /\ \E d \in DOMAIN fs.dirs :
          /\ Eligible(d) = {}
          /\ HasEntries(d)
          /\ RetsOf(PathOf(d)) = {"nil"}
          /\ PkgsBelow(d) # {}

\* C6: in the Program loadProgram returns, no two packageInfo entries have
\* the same Path.
C6_PathsAreDistinct ==
    pc \in {"loaded", "fatal"} =>
        \A i, j \in DOMAIN prg.Packages :
            i # j => prg.Packages[i].Path # prg.Packages[j].Path

\* C7 as stated: of two resolutions of the same import path without alias,
\* made from two different files, the second is served from
\* buildImportCache and yields the alias the first one yielded.  After one
\* Process call every entry of lookups comes from a different file.
C7_ImportLookedUpOnce ==
    calls = 1 =>
        \A a, b \in DOMAIN lookups :
            (a < b /\ lookups[a].path = lookups[b].path)
            => lookups[b].hit /\ lookups[b].alias = lookups[a].alias

\* C7 amended: of two resolutions of the same import path without alias, the
\* first of which yielded a name, the second yields the same name and is
\* served from buildImportCache, with no second build.Import lookup.
C7_ImportAliasOnce ==
    \A a, b \in DOMAIN lookups :
        ( /\ a < b
          /\ lookups[a].path = lookups[b].path
          /\ lookups[a].alias # "" )
        => lookups[b].hit /\ lookups[b].alias = lookups[a].alias

\* two packages resolved the same path; the second got the cached name
\* although go/build would have answered otherwise from its directory
C7_Witness ==
    \E a, b \in DOMAIN lookups :
        /\ a < b
        /\ lookups[a].path = lookups[b].path
        /\ lookups[a].dir # lookups[b].dir
        /\ ~lookups[a].hit
        /\ lookups[a].alias # ""
        /\ lookups[b].hit
        /\ BuildImport(lookups[b].path, lookups[b].dir) # lookups[b].alias

Faulty(d) == fs.dirs[d].cond \in {"lstatFail", "readFail"}

LaterSiblings(d) ==
    {e \in DOMAIN fs.dirs :
        /\ Len(e) = Len(d)
        /\ e # d
        /\ SubSeq(e, 1, Len(e) - 1) = SubSeq(d, 1, Len(d) - 1)
        /\ \E x, y \in DOMAIN EntryNames :
              x < y /\ EntryNames[x] = d[Len(d)] /\ EntryNames[y] = e[Len(e)]}

\* C8: when the walk hands an entry to the callback with an error, the
\* error is in the returned list, the callback does not panic, and the
\* entries after it in its directory are still visited.
C8_TraversalErrorCollected ==
    pc # "start" =>
        \A d \in DOMAIN fs.dirs :
            (Faulty(d) /\ PathOf(d) \in VisitedPaths) =>
                /\ WalkErr(PathOf(d)) \in Range(errs)
                /\ "panic" \notin RetsOf(PathOf(d))
                /\ \A e \in LaterSiblings(d) : PathOf(e) \in VisitedPaths

\* C9: after Process of a package, every type its files declare has a Type
\* Record under the lowercase of its name, whose Name is the declared name.
C9_EveryTypeRegistered ==
    pc # "panic" =>
        \A i \in DOMAIN prg.Packages : \A sp \in SrcTypeSpecs(i) :
            Processed(i) =>
                /\ ToLower(sp.name) \in DOMAIN prg.Packages[i].Types
                /\ prg.Packages[i].Types[ToLower(sp.name)].Name = sp.name

\* C10: the mapping handed to a file's type extraction has alias -> path for
\* every import the file declares with an explicit alias other than "_",
\* and every entry of the mapping is an import of that file.
C10_ExplicitAliasesHanded ==
    \A i \in DOMAIN prg.Packages : \A n \in DOMAIN prg.Packages[i].Pkg.Files :
        n \in DOMAIN handed =>
            LET file == prg.Packages[i].Pkg.Files[n] IN
            /\ \A im \in ImportSpecsOf(file) :
                  im.name \notin {"", "_"} =>
                      /\ im.name \in DOMAIN handed[n]
                      /\ handed[n][im.name] = Unquote(im.value)
            /\ \A al \in DOMAIN handed[n] :
                  \E im \in ImportSpecsOf(file) : Unquote(im.value) = handed[n][al]

\* the specs of the import declaration whose mapping a file's type
\* extraction is handed: the last one of the file
HandedSpecs(file) ==
    LET idxs == {k \in DOMAIN file.decls : file.decls[k].tok = "import"} IN
    IF idxs = {} THEN <<>>
    ELSE file.decls[CHOOSE k \in idxs : \A x \in idxs : x <= k].specs

\* the lookup of path from directory dir has failed and left no cache entry
LookupFailed(path, dir) ==
    /\ path \notin DOMAIN buildImportCache
    /\ BuildImport(path, dir) = ""

\* C11: a failed external lookup of an import without alias leaves no entry
\* for that import in the mapping processImports returns and none in
\* buildImportCache (whose every entry comes from a lookup that succeeded);
\* the other imports of the declaration are resolved all the same, and
\* Process comes to its end.
C11_FailedLookupIsOmitted ==
    /\ lookups # <<>> => pc \in {"loaded", "done"}
    /\ \A ip \in DOMAIN buildImportCache :
          /\ buildImportCache[ip] # ""
          /\ \E k \in DOMAIN lookups :
                /\ lookups[k].path = ip
                /\ ~lookups[k].hit
                /\ lookups[k].alias = buildImportCache[ip]
    /\ \A i \in DOMAIN prg.Packages : \A n \in DOMAIN prg.Packages[i].Pkg.Files :
          n \in DOMAIN handed =>
            LET specs == HandedSpecs(prg.Packages[i].Pkg.Files[n])
                dir == prg.Packages[i].FilePath
            IN  \A j \in DOMAIN specs :
                  (specs[j].name = "" /\ LookupFailed(Unquote(specs[j].value), dir)) =>
                    /\ \E k \in DOMAIN lookups :
                          /\ lookups[k].path = Unquote(specs[j].value)
                          /\ lookups[k].dir = dir
                          /\ ~lookups[k].hit
                          /\ lookups[k].alias = ""
                    /\ \A al \in DOMAIN handed[n] :
                          handed[n][al] = Unquote(specs[j].value) =>
                              \E j2 \in DOMAIN specs :
                                  /\ specs[j2].name = al
                                  /\ specs[j2].value = specs[j].value
                    /\ \A j2 \in DOMAIN specs :
                          /\ specs[j2].name \notin {"", "_"} =>
                                /\ specs[j2].name \in DOMAIN handed[n]
                                /\ handed[n][specs[j2].name] = Unquote(specs[j2].value)
                          /\ ( /\ specs[j2].name = ""
                               /\ BuildImport(Unquote(specs[j2].value), dir) # "" ) =>
                                \E al \in DOMAIN handed[n] :
                                    handed[n][al] = Unquote(specs[j2].value)

\* Process has handled a file whose import declaration has an import
\* without alias that cannot be found, followed by an aliased import and by
\* one without alias that is found
C11_Witness ==
    /\ pc \in {"loaded", "done"}
    /\ \E i \in DOMAIN prg.Packages : \E n \in DOMAIN prg.Packages[i].Pkg.Files :
          /\ n \in DOMAIN handed
          /\ LET specs == HandedSpecs(prg.Packages[i].Pkg.Files[n])
                 dir == prg.Packages[i].FilePath
             IN  \E j, j2, j3 \in DOMAIN specs :
                    /\ j < j2 /\ j < j3
                    /\ specs[j].name = ""
                    /\ LookupFailed(Unquote(specs[j].value), dir)
                    /\ specs[j2].name \notin {"", "_"}
                    /\ specs[j2].name \in DOMAIN handed[n]
                    /\ specs[j3].name = ""
                    /\ Unquote(specs[j3].value) \in DOMAIN buildImportCache
                    /\ Cardinality(DOMAIN handed[n]) = 2

Declares(name) == \E i \in DOMAIN prg.Packages : prg.Packages[i].Pkg.Name = name

\* C12: a call of Process with a name that no package of the Program
\* declares returns the error 'package not found' and changes neither the
\* Program (Packages, their Types and Files) nor buildImportCache, and makes
\* no import resolution.
C12_UnknownPackageLeavesProgram ==
    [][\A n \in ProcessNames :
          (Process(n) /\ ~Declares(n)) =>
              /\ lastErr' = "package not found"
              /\ prg' = prg
              /\ buildImportCache' = buildImportCache
              /\ lookups' = lookups
              /\ handed' = handed
              /\ pc' = pc]_vars

\* the second call of Process named an unknown package, after a first call
\* that filled a package's Types and buildImportCache
C12_Witness ==
    /\ calls = 2
    /\ lastErr = "package not found"
    /\ DOMAIN buildImportCache # {}
    /\ \E i \in DOMAIN prg.Packages :
          Processed(i) /\ DOMAIN prg.Packages[i].Types # {}

\* C13: loadProgram on an empty root path, or on a root path that does not
\* exist, returns no Program and exactly one error, and the walk callback
\* is never called (no directory is walked or parsed).
C13_InvalidRoot ==
    (pc # "start" /\ (IsPathEmpty(fs.root) \/ ~fs.exists)) =>
        /\ prg.isNil
        /\ Len(errs) = 1
        /\ errs[1].kind = "input"
        /\ visited = <<>>
        /\ pc = "fatal"

\* loadProgram has returned for a root path that is not empty and does not
\* exist
C13_Witness ==
    /\ pc = "fatal"
    /\ ~IsPathEmpty(fs.root)
    /\ ~fs.exists
    /\ prg.isNil
    /\ Len(errs) = 1

\* directory d lies in or below a directory whose name is excluded
UnderExcluded(d) == \E k \in DOMAIN d : d[k] \in fs.excludes

\* directory d lies strictly below a directory whose name is excluded
BelowExcluded(d) == \E k \in 1..(Len(d) - 1) : d[k] \in fs.excludes

\* C14: no file with an excluded name is among the files of a package of
\* the Program; a directory with an excluded name gets SkipDir from the
\* callback, nothing below it is handed to the callback, and no package at
\* or below it is in the Program.
C14_ExcludedIsSkipped ==
    pc # "start" =>
        /\ \A i \in DOMAIN prg.Packages : \A n \in DOMAIN prg.Packages[i].Pkg.Files :
              Base(n) \notin fs.excludes
        /\ \A d \in DOMAIN fs.dirs :
              UnderExcluded(d) =>
                /\ PkgsAt(PathOf(d)) = {}
                /\ RetsOf(PathOf(d)) \subseteq {"SkipDir"}
                /\ BelowExcluded(d) => PathOf(d) \notin VisitedPaths
                /\ \A f \in fs.dirs[d].files :
                      Join(PathOf(d), f.name) \notin VisitedPaths

\* loadProgram has returned packages; it met an excluded directory that
\* holds a package and has a sub-directory holding one, and a package's
\* directory holds an excluded file
C14_Witness ==
    /\ pc = "loaded"
    /\ \E d \in DOMAIN fs.dirs :
          /\ d # <<>>
          /\ d[Len(d)] \in fs.excludes
          /\ RetsOf(PathOf(d)) = {"SkipDir"}
          /\ Eligible(d) # {}
          /\ \E n \in SubDirNames(d) : Eligible(Append(d, n)) # {}
    /\ \E i \in DOMAIN prg.Packages :
          \E f \in fs.dirs[DirAt(prg.Packages[i].FilePath)].files :
              f.name \in fs.excludes

\* the files Process has handled, with the directory of their package
HandledFiles ==
    {[file |-> prg.Packages[i].Pkg.Files[n], dir |-> prg.Packages[i].FilePath,
      name |-> n] :
        <<i, n>> \in {x \in (DOMAIN prg.Packages) \X (DOMAIN handed) :
                        x[2] \in DOMAIN prg.Packages[x[1]].Pkg.Files}}

\* some handled file of the package in dir imports path without alias
ImportedBare(path, dir) ==
    \E h \in HandledFiles :
        /\ h.dir = dir
        /\ \E im \in ImportSpecsOf(h.file) : im.name = "" /\ Unquote(im.value) = path

\* C15: an import under the discard identifier gives no entry of the
\* mapping (no key "_", and every entry stems from an import of the
\* declaration that is not a discard), no build.Import lookup or cache
\* read (each is for an import without alias of a handled file) and no entry
\* of buildImportCache.
C15_DiscardImportIsSkipped ==
    /\ \A h \in HandledFiles :
          /\ "_" \notin DOMAIN handed[h.name]
          /\ \A al \in DOMAIN handed[h.name] :
                \E im \in Range(HandedSpecs(h.file)) :
                    /\ im.name # "_"
                    /\ Unquote(im.value) = handed[h.name][al]
    /\ \A k \in DOMAIN lookups : ImportedBare(lookups[k].path, lookups[k].dir)
    /\ \A ip \in DOMAIN buildImportCache :
          \E h \in HandledFiles : ImportedBare(ip, h.dir)

\* Process has handled a file with `_ "x"` and `y "x"` in its last import
\* declaration: the mapping has y, other paths were looked up, and "x" was
\* neither looked up nor cached
C15_Witness ==
    /\ pc \in {"loaded", "done"}
    /\ lookups # <<>>
    /\ DOMAIN buildImportCache # {}
    /\ \E h \in HandledFiles :
          \E im \in Range(HandedSpecs(h.file)) :
              /\ im.name = "_"
              /\ Unquote(im.value) \notin DOMAIN buildImportCache
              /\ \A k \in DOMAIN lookups : lookups[k].path # Unquote(im.value)
              /\ \E al \in DOMAIN handed[h.name] :
                    handed[h.name][al] = Unquote(im.value)

\* C16: findPkgAndTypeName answers for a field type wrapped in any number
\* of pointers as for the type without them: ("", name) for an identifier,
\* (alias, name) for alias.Name, ("", "") for any other expression.
C16_PointersAreUnwrapped ==
    classified.done =>
        LET x == Unstar(classified.of) IN
        <<classified.pkg, classified.name>> =
            IF x.shape = "ident" THEN <<"", x.name>>
            ELSE IF x.shape = "selector" /\ x.x.shape = "ident"
            THEN <<x.x.name, x.sel>>
            ELSE <<"", "">>

\* `***aah.Controller` has been classified
C16_Witness ==
    /\ classified.done
    /\ Stars(classified.of) = 3
    /\ Unstar(classified.of) = Selector(Ident("aah"), "Controller")
    /\ classified.pkg = "aah"
    /\ classified.name = "Controller"

\* the first package of the Program that declares name
FirstNamed(name) ==
    CHOOSE i \in DOMAIN prg.Packages :
        /\ prg.Packages[i].Pkg.Name = name
        /\ \A j \in 1..(i - 1) : prg.Packages[j].Pkg.Name # name

\* C17: a call of Process for a package that Process has handled before
\* leaves the package with the same Types and with the same file names in
\* Files, each file of the package once.
C17_ProcessIsIdempotent ==
    [][\A n \in ProcessNames :
          (Process(n) /\ Declares(n) /\ Processed(FirstNamed(n))) =>
              LET before == prg.Packages[FirstNamed(n)]
                  after == prg'.Packages[FirstNamed(n)]
              IN  /\ after.Types = before.Types
                  /\ Range(after.Files) = Range(before.Files)
                  /\ Len(after.Files) = Len(before.Files)
                  /\ Len(after.Files) = Cardinality(DOMAIN after.Pkg.Files)]_vars

\* the position in the walk at which the directory of package i was handed
\* to the callback
DiscoveredAt(i) ==
    CHOOSE k \in DOMAIN visited : visited[k].path = prg.Packages[i].FilePath

\* the package declaring name that the walk discovered first
FirstDiscovered(name) ==
    CHOOSE i \in DOMAIN prg.Packages :
        /\ prg.Packages[i].Pkg.Name = name
        /\ \A j \in DOMAIN prg.Packages :
              prg.Packages[j].Pkg.Name = name => DiscoveredAt(i) <= DiscoveredAt(j)

\* C18: a call of Process with a name that packages of the Program declare
\* fills Types and Files of the one the walk discovered first and leaves
\* every other package, those of the same name included, as it was.
C18_FirstPackageOnly ==
    [][\A n \in ProcessNames :
          (Process(n) /\ Declares(n)) =>
              LET i == FirstDiscovered(n) IN
              /\ Len(prg'.Packages) = Len(prg.Packages)
              /\ Len(prg'.Packages[i].Files) > Len(prg.Packages[i].Files)
              /\ DOMAIN prg'.Packages[i].Types # {}
              /\ \A j \in DOMAIN prg.Packages :
                    j # i => prg'.Packages[j] = prg.Packages[j]]_vars

\* Process has run on a Program with two packages of one name: the first
\* has Types and Files, the other has none
C18_Witness ==
    /\ calls >= 1
    /\ \E i, j \in DOMAIN prg.Packages :
          /\ i < j
          /\ prg.Packages[i].Pkg.Name = prg.Packages[j].Pkg.Name
          /\ prg.Packages[i].Files # <<>>
          /\ DOMAIN prg.Packages[i].Types # {}
          /\ prg.Packages[j].Files = <<>>
          /\ DOMAIN prg.Packages[j].Types = {}

====
